---- MODULE Spec2Model ----
(***************************************************************************)
(* The Streamer of swarm/network/streamer.go as a state machine: the       *)
(* stream-type registry, the peer table, the per-peer outgoing/incoming    *)
(* maps, the per-peer priority queue with its egress worker, the protocol  *)
(* message handlers and the background goroutines they start.              *)
(*                                                                         *)
(* Strings and byte slices that are concatenated or compared (stream       *)
(* names, stream keys) are sequences of characters; the Go zero values ""  *)
(* and nil are the empty sequence.  A hash buffer is a record              *)
(* [hs, rag]: the whole HashSize-byte hashes it holds followed by rag      *)
(* trailing bytes, so that its byte length is Len(hs)*HashSize + rag.      *)
(* A bitvector is its byte sequence.                                       *)
(***************************************************************************)
EXTENDS Integers, Sequences, FiniteSets, Bags, TLC

VARIABLES
    regIn,      \* Streamer.incoming: names with an incoming constructor
    regOut,     \* Streamer.outgoing: names with an outgoing constructor
    peers,      \* Streamer.peers: ids in the peer table
    phase,      \* position of Streamer.Run for each peer id
    outgoing,   \* StreamerPeer.outgoing: map key -> outgoingStreamer
    incoming,   \* StreamerPeer.incoming: map key -> incomingStreamer
    pq,         \* StreamerPeer.pq: level -> FIFO of messages
    store,      \* the chunk store behind dbAccess: key -> chunk
    receiveC,   \* Streamer.receiveC
    deliveryC,  \* RetrieveRequestStreamer.deliveryC of each peer
    tasks,      \* the goroutines started by the handlers (a bag)
    recvLoop,   \* position of Streamer.processReceivedChunks
    closes,     \* per chunk key: close(chunk.ReqC) calls made so far
    fetches,    \* per chunk key: RetrieveRequestMsg enqueued for it
    ret         \* the call or step made last: its inputs, its result, and
                \* for the egress worker the message handed to p.Send

chunkVars == <<store, receiveC, deliveryC, recvLoop, closes, fetches>>

vars == <<regIn, regOut, peers, phase, outgoing, incoming, pq, tasks, ret,
          chunkVars>>

(***************************************************************************)
(* Program constants (streamer.go:34-43).  iota counts the lines of the    *)
(* const block, and HashSize is on line 0 of it, so Low is 1.              *)
(***************************************************************************)
HashSize == 32
Low == 1
Mid == 2
High == 3
Top == 4
PriorityQueue == 5
PriorityQueueCap == 3
ReceiveCCap == 10

(***************************************************************************)
(* Bounds of the model.                                                    *)
(***************************************************************************)
MaxPos == 1
MaxBatchLen == 2
MaxBatches == 2
MaxTasks == 1
MaxInFlight == 2
MaxDelivery == 1
MaxMark == 5

PeerIds == {"p1", "p2"}
retrieveRequestStream == <<"r">>
StreamNames == {retrieveRequestStream, <<"s">>}
StreamKeys == {<<>>, <<"k">>}
HashIds == {"h1", "h2"}
\* the i-th hash of the stream the outgoing handlers of the model offer
HashOf(i) == IF i % 2 = 1 THEN "h1" ELSE "h2"
Positions == 0 .. MaxPos
\* priority bytes tried as inputs: a low level, the top level, no level
PriorityInputs == {Mid, Top, PriorityQueue}
Levels == 0 .. (PriorityQueue - 1)

NoMsg == [type |-> "none"]
NoRet == [op |-> "none"]

(***************************************************************************)
(* Hash buffers.                                                           *)
(***************************************************************************)
SeqsUpTo(S, n) == UNION {[1 .. m -> S] : m \in 0 .. n}
Buf(hs, rag) == [hs |-> hs, rag |-> rag]
EmptyBuf == Buf(<<>>, 0)
ByteLen(b) == Len(b.hs) * HashSize + b.rag
\* b[lo : lo+HashSize] for an offset that is a multiple of HashSize
HashAt(b, lo) == b.hs[(lo \div HashSize) + 1]
\* the batches a handler offers: none, or one of the two longest
BatchLens == {0} \cup {n \in 1 .. MaxBatchLen : n >= MaxBatchLen - 1}
Batches == {Buf([i \in 1 .. n |-> HashOf(i)], 0) : n \in BatchLens}

(***************************************************************************)
(* The bitvector package, by its contract: New(n) is ceil(n/8) zero bytes, *)
(* bit i lives in byte i/8 at position i%8, NewFromBytes wants exactly     *)
(* ceil(n/8) bytes.                                                        *)
(***************************************************************************)
Pow2(n) == IF n = 0 THEN 1 ELSE IF n = 1 THEN 2 ELSE IF n = 2 THEN 4
           ELSE IF n = 3 THEN 8 ELSE IF n = 4 THEN 16 ELSE IF n = 5 THEN 32
           ELSE IF n = 6 THEN 64 ELSE 128
BvBytes(n) == (n + 7) \div 8
BvNew(n) == [j \in 1 .. BvBytes(n) |-> 0]
BvGet(b, i) == ((b[(i \div 8) + 1] \div Pow2(i % 8)) % 2) = 1
BvSet(b, i) ==
    IF (i \div 8) + 1 \in DOMAIN b /\ ~BvGet(b, i)
    THEN [b EXCEPT ![(i \div 8) + 1] = @ + Pow2(i % 8)]
    ELSE b
BvFromBytesOk(buf, n) == Len(buf) = BvBytes(n)

(***************************************************************************)
(* The priorityqueue package, by its contract: Push with a nil context is  *)
(* non-blocking and is rejected when the level is full (or does not        *)
(* exist); the worker takes one item from the highest non-empty level.     *)
(***************************************************************************)
EmptyPq == [l \in Levels |-> <<>>]
PushOk(q, prio) == prio \in Levels /\ Len(q[prio]) < PriorityQueueCap
Push(q, msg, prio) ==
    IF PushOk(q, prio) THEN [q EXCEPT ![prio] = Append(@, msg)] ELSE q
NonEmptyLevels(q) == {l \in Levels : q[l] # <<>>}
MaxOf(S) == CHOOSE x \in S : \A y \in S : y <= x
MinOf(S) == CHOOSE x \in S : \A y \in S : x <= y
PqSelect(q) == MaxOf(NonEmptyLevels(q))

(***************************************************************************)
(* Messages.                                                               *)
(***************************************************************************)
SubscribeMsg(s, t, from, to, prio) ==
    [type |-> "Subscribe", Stream |-> s, Key |-> t, From |-> from, To |-> to,
     Priority |-> prio]
UnsyncedKeysMsg(s, t, from, to, hashes, proof) ==
    [type |-> "UnsyncedKeys", Stream |-> s, Key |-> t, From |-> from,
     To |-> to, Hashes |-> hashes, Proof |-> proof]
WantedKeysMsg(s, t, want, from, to) ==
    [type |-> "WantedKeys", Stream |-> s, Key |-> t, Want |-> want,
     From |-> from, To |-> to]
ChunkDeliveryMsg(key, data) ==
    [type |-> "ChunkDelivery", Key |-> key, SData |-> data]
RetrieveRequestMsg(key) == [type |-> "RetrieveRequest", Key |-> key]
TakeoverProofMsg(s, from) == [type |-> "TakeoverProof", Stream |-> s, Start |-> from]

(***************************************************************************)
(* NewStreamer.                                                            *)
(***************************************************************************)
Init ==
    /\ regIn = {}
    /\ regOut = {}
    /\ peers = {}
    /\ phase = [p \in PeerIds |-> "new"]
    /\ outgoing = [p \in PeerIds |-> <<>>]
    /\ incoming = [p \in PeerIds |-> <<>>]
    /\ pq = [p \in PeerIds |-> EmptyPq]
    /\ store = <<>>
    /\ receiveC = <<>>
    /\ deliveryC = [p \in PeerIds |-> <<>>]
    /\ recvLoop = [at |-> "receive"]
    /\ tasks = EmptyBag
    /\ closes = [k \in HashIds |-> 0]
    /\ fetches = [k \in HashIds |-> 0]
    /\ ret = NoRet


(***************************************************************************)
(* Map and task helpers.                                                   *)
(***************************************************************************)
Has(m, k) == k \in DOMAIN m
MapPut(m, k, v) == (k :> v) @@ m
quitClosed(p) == phase[p] \in {"closing", "done"}
Spawn(b, t) == b (+) SetToBag({t})
Exit(b, t) == b (-) SetToBag({t})
Running(t) == BagIn(t, tasks)
TasksOfKind(kind) == {t \in BagToSet(tasks) : t.kind = kind}
CountOfKind(kind) ==
    BagCardinality([t \in TasksOfKind(kind) |-> CopiesIn(t, tasks)])
CanSpawn(kind) == CountOfKind(kind) < MaxTasks
SendUnsyncedKeysTask(p, k, f, t) ==
    [kind |-> "SendUnsyncedKeys", peer |-> p, stream |-> k, f |-> f, t |-> t,
     at |-> "SetNextBatch", msg |-> NoMsg]

(***************************************************************************)
(* RegisterIncomingStreamer / RegisterOutgoingStreamer.  Stream types are  *)
(* registered while the node is set up, before the first peer runs.        *)
(***************************************************************************)
RegisterIncomingStreamer(s) ==
    /\ \A p \in PeerIds : phase[p] = "new"
    /\ s \notin regIn
    /\ regIn' = regIn \cup {s}
    /\ ret' = [op |-> "RegisterIncomingStreamer", stream |-> s]
    /\ UNCHANGED <<regOut, peers, phase, outgoing, incoming, pq, tasks,
                   chunkVars>>

RegisterOutgoingStreamer(s) ==
    /\ \A p \in PeerIds : phase[p] = "new"
    /\ s \notin regOut
    /\ regOut' = regOut \cup {s}
    /\ ret' = [op |-> "RegisterOutgoingStreamer", stream |-> s]
    /\ UNCHANGED <<regIn, peers, phase, outgoing, incoming, pq, tasks,
                   chunkVars>>

(***************************************************************************)
(* setIncomingStreamer: the new entry, with next holding one token.        *)
(***************************************************************************)
NewIncoming(priority, live) ==
    [priority |-> priority, live |-> live, sessionAt |-> 0, next |-> 1,
     quit |-> "nil", nbatch |-> 0, wanted |-> 0]

\* a registration that overwrites an existing entry
setIncomingStreamerNoCheck(p, s) == TRUE
setIncomingStreamerOk(p, s) == ~Has(incoming[p], s)

setIncomingStreamer(p, s, priority, live) ==
    MapPut(incoming[p], s, NewIncoming(priority, live))

(***************************************************************************)
(* Streamer.Subscribe.  ctorOk is whether the constructor f(peer, t)       *)
(* succeeds.  The result of SendPriority is dropped.                       *)
(***************************************************************************)
SubscribeErr(p, s, ctorOk) ==
    IF s \notin regIn THEN "not registered"
    ELSE IF p \notin peers THEN "peer not found"
    ELSE IF ~ctorOk THEN "constructor"
    ELSE IF ~setIncomingStreamerOk(p, s) THEN "already registered"
    ELSE "nil"

SubscribeEffect(p, s, t, from, to, priority, live, ctorOk) ==
    IF SubscribeErr(p, s, ctorOk) = "nil"
    THEN /\ incoming' = [incoming EXCEPT
                            ![p] = setIncomingStreamer(p, s, priority, live)]
         /\ pq' = [pq EXCEPT
                      ![p] = Push(@, SubscribeMsg(s, t, from, to, priority),
                                  priority)]
    ELSE UNCHANGED <<incoming, pq>>

Subscribe(p, s, t, from, to, priority, live, ctorOk) ==
    /\ SubscribeEffect(p, s, t, from, to, priority, live, ctorOk)
    /\ ret' = [op |-> "Subscribe", peer |-> p, stream |-> s, key |-> t,
               from |-> from, to |-> to, priority |-> priority, live |-> live,
               ctorOk |-> ctorOk, err |-> SubscribeErr(p, s, ctorOk)]
    /\ UNCHANGED <<regIn, regOut, peers, phase, outgoing, tasks, chunkVars>>

(***************************************************************************)
(* Streamer.Run, step by step: NewStreamerPeer and setPeer; the            *)
(* subscription to the retrieve-request stream; the dispatch loop; on      *)
(* return close(quit), then deletePeer (the deferred calls, last first).   *)
(***************************************************************************)
\* a Run that does not put the peer in the table
RunStartUnregistered(p) ==
    /\ phase[p] = "new"
    /\ phase' = [phase EXCEPT ![p] = "subscribing"]
    /\ ret' = [op |-> "RunStart", peer |-> p]
    /\ UNCHANGED <<regIn, regOut, peers, outgoing, incoming, pq, tasks,
                   chunkVars>>

RunStart(p) ==
    /\ phase[p] = "new"
    /\ phase' = [phase EXCEPT ![p] = "subscribing"]
    /\ peers' = peers \cup {p}
    /\ ret' = [op |-> "RunStart", peer |-> p]
    /\ UNCHANGED <<regIn, regOut, outgoing, incoming, pq, tasks, chunkVars>>

RunSubscribe(p) ==
    /\ phase[p] = "subscribing"
    /\ phase' = [phase EXCEPT ![p] = "running"]
    /\ \E ctorOk \in BOOLEAN :
          /\ SubscribeEffect(p, retrieveRequestStream, <<>>, 0, 0, Top, TRUE,
                             ctorOk)
          /\ ret' = [op |-> "RunSubscribe", peer |-> p,
                     stream |-> retrieveRequestStream, key |-> <<>>,
                     from |-> 0, to |-> 0, priority |-> Top, live |-> TRUE,
                     ctorOk |-> ctorOk, err |-> SubscribeErr(p, retrieveRequestStream, ctorOk)]
    /\ UNCHANGED <<regIn, regOut, peers, outgoing, tasks, chunkVars>>

RunCloseQuit(p) ==
    /\ phase[p] = "running"
    /\ phase' = [phase EXCEPT ![p] = "closing"]
    /\ ret' = [op |-> "RunCloseQuit", peer |-> p]
    /\ UNCHANGED <<regIn, regOut, peers, outgoing, incoming, pq, tasks,
                   chunkVars>>

RunDeletePeer(p) ==
    /\ phase[p] = "closing"
    /\ phase' = [phase EXCEPT ![p] = "done"]
    /\ peers' = peers \ {p}
    /\ ret' = [op |-> "RunDeletePeer", peer |-> p]
    /\ UNCHANGED <<regIn, regOut, outgoing, incoming, pq, tasks, chunkVars>>

\* Run for a node that connects again after its earlier Run has returned:
\* NewStreamerPeer builds fresh maps, a fresh queue and a fresh quit
RunAgain(p) ==
    /\ phase[p] = "done"
    /\ phase' = [phase EXCEPT ![p] = "subscribing"]
    /\ peers' = peers \cup {p}
    /\ outgoing' = [outgoing EXCEPT ![p] = <<>>]
    /\ incoming' = [incoming EXCEPT ![p] = <<>>]
    /\ pq' = [pq EXCEPT ![p] = EmptyPq]
    /\ ret' = [op |-> "RunAgain", peer |-> p]
    /\ UNCHANGED <<regIn, regOut, tasks, chunkVars>>

(***************************************************************************)
(* The egress worker started by NewStreamerPeer: pq.Run with p.Send, until *)
(* quit is closed.                                                         *)
(***************************************************************************)
\* a worker that takes the head of any non-empty level
EgressAnyLevel(p) ==
    /\ phase[p] \in {"subscribing", "running"}
    /\ \E l \in NonEmptyLevels(pq[p]) :
          /\ pq' = [pq EXCEPT ![p][l] = Tail(@)]
          /\ ret' = [op |-> "Egress", peer |-> p, level |-> l,
                     sent |-> Head(pq[p][l])]
    /\ UNCHANGED <<regIn, regOut, peers, phase, outgoing, incoming, tasks,
                   chunkVars>>

Egress(p) ==
    /\ phase[p] \in {"subscribing", "running"}
    /\ NonEmptyLevels(pq[p]) # {}
    /\ LET l == PqSelect(pq[p]) IN
          /\ pq' = [pq EXCEPT ![p][l] = Tail(@)]
          /\ ret' = [op |-> "Egress", peer |-> p, level |-> l,
                     sent |-> Head(pq[p][l])]
    /\ UNCHANGED <<regIn, regOut, peers, phase, outgoing, incoming, tasks,
                   chunkVars>>

(***************************************************************************)
(* setOutgoingStreamer and handleSubscribeMsg.                             *)
(***************************************************************************)
NewOutgoing(name, key, priority) ==
    [handler |-> [name |-> name, key |-> key], priority |-> priority,
     currentBatch |-> EmptyBuf]

\* a registration that replaces an existing entry
setOutgoingStreamerNoCheck(p, k) == TRUE
setOutgoingStreamerOk(p, k) == ~Has(outgoing[p], k)

SubscribeMsgKey(req) == req.Stream \o req.Key

handleSubscribeMsgErr(req, ctorOk) ==
    IF req.Stream \notin regOut THEN "not registered"
    ELSE IF ~ctorOk THEN "constructor"
    ELSE "nil"

handleSubscribeMsg(p, req, ctorOk) ==
    /\ phase[p] = "running"
    /\ LET k == SubscribeMsgKey(req)
           err == handleSubscribeMsgErr(req, ctorOk)
       IN
          /\ (err = "nil" /\ setOutgoingStreamerOk(p, k)) =>
                CanSpawn("SendUnsyncedKeys")
          /\ IF err = "nil" /\ setOutgoingStreamerOk(p, k)
             THEN /\ outgoing' = [outgoing EXCEPT
                        ![p] = MapPut(@, k, NewOutgoing(req.Stream, req.Key,
                                                        req.Priority))]
                  /\ tasks' = Spawn(tasks, SendUnsyncedKeysTask(p, k, req.From,
                                                                req.To))
             ELSE UNCHANGED <<outgoing, tasks>>
          /\ ret' = [op |-> "handleSubscribeMsg", peer |-> p, req |-> req,
                     ctorOk |-> ctorOk, err |-> err]
    /\ UNCHANGED <<regIn, regOut, peers, phase, incoming, pq, chunkVars>>

(***************************************************************************)
(* StreamerPeer.SendUnsyncedKeys, run as a goroutine: SetNextBatch (which  *)
(* may fail, and may adjust the range), the store of currentBatch, then    *)
(* SendPriority of the UnsyncedKeysMsg.  The message is built without a    *)
(* Stream or a Key.                                                        *)
(***************************************************************************)
SendUnsyncedKeysMsgOf(hashes, from, to, proof) ==
    UnsyncedKeysMsg(<<>>, <<>>, from, to, hashes, proof)

\* what the outgoing handlers of the model return as the adjusted range of
\* a batch of n hashes asked for as [f, t]
AdjustedTo(f, t, n) == IF n = 0 THEN t ELSE f + n - 1

SendUnsyncedKeysSetBatch(t, ok, hashes) ==
    /\ Running(t)
    /\ t.kind = "SendUnsyncedKeys"
    /\ t.at = "SetNextBatch"
    /\ IF ok
       THEN /\ outgoing' = [outgoing EXCEPT
                               ![t.peer][t.stream].currentBatch = hashes]
            /\ tasks' = Spawn(Exit(tasks, t),
                  [t EXCEPT !.at = "SendPriority",
                            !.msg = SendUnsyncedKeysMsgOf(hashes, t.f,
                                       AdjustedTo(t.f, t.t, Len(hashes.hs)),
                                       "handover")])
       ELSE /\ tasks' = Exit(tasks, t)
            /\ UNCHANGED outgoing
    /\ ret' = [op |-> "SetNextBatch", peer |-> t.peer, stream |-> t.stream,
               ok |-> ok]
    /\ UNCHANGED <<regIn, regOut, peers, phase, incoming, pq, chunkVars>>

SendUnsyncedKeysSend(t) ==
    /\ Running(t)
    /\ t.kind = "SendUnsyncedKeys"
    /\ t.at = "SendPriority"
    /\ LET prio == outgoing[t.peer][t.stream].priority IN
          /\ pq' = [pq EXCEPT ![t.peer] = Push(@, t.msg, prio)]
          /\ ret' = [op |-> "SendUnsyncedKeys", peer |-> t.peer,
                     stream |-> t.stream, msg |-> t.msg, priority |-> prio,
                     err |-> IF PushOk(pq[t.peer], prio) THEN "nil"
                             ELSE "push"]
    /\ tasks' = Exit(tasks, t)
    /\ UNCHANGED <<regIn, regOut, peers, phase, outgoing, incoming,
                   chunkVars>>


(***************************************************************************)
(* handleWantedKeysMsg.  avail is the set of hashes for which the          *)
(* handler's GetData returns data (DataOf); for the others it returns nil. *)
(* The loop stops at the first wanted hash without data and at the first   *)
(* delivery the queue rejects.                                             *)
(***************************************************************************)
DataOf(hash) == IF hash = "h1" THEN "d1" ELSE "d2"

Deliver(q, hash, data, priority) == Push(q, ChunkDeliveryMsg(hash, data), priority)

\* a loop that skips a wanted hash without data instead of stopping
RECURSIVE WantedKeysLoopSkip(_, _, _, _, _, _, _)
WantedKeysLoopSkip(i, l, want, hashes, avail, priority, q) ==
    IF i >= l THEN [q |-> q, err |-> "nil"]
    ELSE IF ~BvGet(want, i)
    THEN WantedKeysLoopSkip(i + 1, l, want, hashes, avail, priority, q)
    ELSE LET hash == HashAt(hashes, i * HashSize) IN
         IF hash \notin avail
         THEN WantedKeysLoopSkip(i + 1, l, want, hashes, avail, priority, q)
         ELSE IF ~PushOk(q, priority) THEN [q |-> q, err |-> "push"]
         ELSE WantedKeysLoopSkip(i + 1, l, want, hashes, avail, priority,
                                 Deliver(q, hash, DataOf(hash), priority))

\* a loop that enqueues a delivery without data for a wanted hash it does
\* not find, and then fails
RECURSIVE WantedKeysLoopDeliverNil(_, _, _, _, _, _, _)
WantedKeysLoopDeliverNil(i, l, want, hashes, avail, priority, q) ==
    IF i >= l THEN [q |-> q, err |-> "nil"]
    ELSE IF ~BvGet(want, i)
    THEN WantedKeysLoopDeliverNil(i + 1, l, want, hashes, avail, priority, q)
    ELSE LET hash == HashAt(hashes, i * HashSize) IN
         IF hash \notin avail
         THEN [q |-> Deliver(q, hash, "nil", priority), err |-> "not found"]
         ELSE IF ~PushOk(q, priority) THEN [q |-> q, err |-> "push"]
         ELSE WantedKeysLoopDeliverNil(i + 1, l, want, hashes, avail,
                                       priority,
                                       Deliver(q, hash, DataOf(hash), priority))

RECURSIVE WantedKeysLoop(_, _, _, _, _, _, _)
WantedKeysLoop(i, l, want, hashes, avail, priority, q) ==
    IF i >= l THEN [q |-> q, err |-> "nil"]
    ELSE IF ~BvGet(want, i)
    THEN WantedKeysLoop(i + 1, l, want, hashes, avail, priority, q)
    ELSE LET hash == HashAt(hashes, i * HashSize) IN
         IF hash \notin avail THEN [q |-> q, err |-> "not found"]
         ELSE IF ~PushOk(q, priority) THEN [q |-> q, err |-> "push"]
         ELSE WantedKeysLoop(i + 1, l, want, hashes, avail, priority,
                             Deliver(q, hash, DataOf(hash), priority))

\* a parse that takes a want of the wrong length for an empty one
WantedKeysDeliverUnparsed(want, l, hashes, avail, priority, q) ==
    IF BvFromBytesOk(want, l)
    THEN WantedKeysLoop(0, l, want, hashes, avail, priority, q)
    ELSE [q |-> q, err |-> "nil"]

\* the parse of req.Want over l bits, then the loop over the wanted hashes
WantedKeysDeliver(want, l, hashes, avail, priority, q) ==
    IF BvFromBytesOk(want, l)
    THEN WantedKeysLoop(0, l, want, hashes, avail, priority, q)
    ELSE [q |-> q, err |-> "bitvector"]

handleWantedKeysMsg(p, req, avail) ==
    /\ phase[p] = "running"
    /\ IF ~Has(outgoing[p], req.Stream)
       THEN /\ ret' = [op |-> "handleWantedKeysMsg", peer |-> p, req |-> req,
                       avail |-> avail, err |-> "not provided"]
            /\ UNCHANGED <<pq, tasks>>
       ELSE LET s == outgoing[p][req.Stream]
                hashes == s.currentBatch
                l == ByteLen(hashes) \div HashSize
                out == WantedKeysDeliver(req.Want, l, hashes, avail,
                                         s.priority, pq[p])
            IN /\ CanSpawn("SendUnsyncedKeys")
               /\ tasks' = Spawn(tasks, SendUnsyncedKeysTask(p, req.Stream,
                                                             req.From, req.To))
               /\ pq' = [pq EXCEPT ![p] = out.q]
               /\ ret' = [op |-> "handleWantedKeysMsg", peer |-> p,
                          req |-> req, avail |-> avail, err |-> out.err]
    /\ UNCHANGED <<regIn, regOut, peers, phase, outgoing, incoming,
                   chunkVars>>

(***************************************************************************)
(* handleTakeoverProofMsg: the lookup of the outgoing handler by the       *)
(* message's stream name; the proof itself is not stored.                  *)
(***************************************************************************)
handleTakeoverProofMsg(p, req) ==
    /\ phase[p] = "running"
    /\ ret' = [op |-> "handleTakeoverProofMsg", peer |-> p, req |-> req,
               err |-> IF Has(outgoing[p], req.Stream) THEN "nil"
                       ELSE "not provided"]
    /\ UNCHANGED <<regIn, regOut, peers, phase, outgoing, incoming, pq, tasks,
                   chunkVars>>

(***************************************************************************)
(* incomingStreamer.nextBatch.  The intervals it works on are a fresh nil  *)
(* slice on every call, so a live stream answers (from, 0); a stream that  *)
(* is not live has from >= sessionAt and answers (0, 0) unless sessionAt   *)
(* is above from, where intervals[1] of the nil slice is written.          *)
(***************************************************************************)
nextBatch(s, from) ==
    IF s.live THEN [from |-> from, to |-> 0, panic |-> FALSE]
    ELSE IF from >= s.sessionAt THEN [from |-> 0, to |-> 0, panic |-> FALSE]
    ELSE [from |-> from, to |-> s.sessionAt, panic |-> TRUE]

(***************************************************************************)
(* handleUnsyncedKeysMsg.  need is the set of hash indexes for which the   *)
(* handler's NeedData returns a wait function when it is asked.  The loop  *)
(* runs i over 0, HashSize, 2*HashSize, ... below len(hashes)/HashSize,    *)
(* asks NeedData for hashes[i : i+HashSize] and sets bit i.                *)
(***************************************************************************)
RECURSIVE UnsyncedKeysLoop(_, _, _, _)
UnsyncedKeysLoop(i, k, need, acc) ==
    IF i >= k THEN acc
    ELSE LET h == i \div HashSize IN
         UnsyncedKeysLoop(i + HashSize, k, need,
            IF h \in need
            THEN [want |-> BvSet(acc.want, i),
                  waiting |-> acc.waiting \cup {h},
                  consulted |-> Append(acc.consulted, h)]
            ELSE [acc EXCEPT !.consulted = Append(@, h)])

UnsyncedKeysScan(hashes, need) ==
    LET k == ByteLen(hashes) \div HashSize IN
    UnsyncedKeysLoop(0, k, need,
        [want |-> BvNew(k), waiting |-> {}, consulted |-> <<>>])

BatchDoneTask(p, stream, batch, waiting) ==
    [kind |-> "BatchDone", peer |-> p, stream |-> stream, batch |-> batch,
     waiting |-> waiting, at |-> "wait", late |-> FALSE]

WantedKeysTask(p, stream, batch, msg) ==
    [kind |-> "WantedKeys", peer |-> p, stream |-> stream, batch |-> batch,
     msg |-> msg]

handleUnsyncedKeysMsg(p, req, need) ==
    /\ phase[p] = "running"
    /\ IF ~Has(incoming[p], req.Stream)
       THEN /\ ret' = [op |-> "handleUnsyncedKeysMsg", peer |-> p,
                       req |-> req, need |-> need, err |-> "not provided",
                       want |-> <<>>, consulted |-> <<>>, batch |-> 0]
            /\ UNCHANGED <<incoming, tasks>>
       ELSE LET s == incoming[p][req.Stream]
                scan == UnsyncedKeysScan(req.Hashes, need)
                batch == s.nbatch + 1
                s1 == [s EXCEPT !.nbatch = batch,
                                !.sessionAt = IF s.live THEN req.From ELSE @]
                nb == nextBatch(s1, req.To)
                msg == WantedKeysMsg(req.Stream, <<>>, scan.want, nb.from,
                                     nb.to)
                agg == Spawn(tasks, BatchDoneTask(p, req.Stream, batch,
                                                  scan.waiting))
            IN /\ s.nbatch < MaxBatches
               /\ incoming' = [incoming EXCEPT ![p][req.Stream] = s1]
               /\ tasks' = IF nb.from = nb.to THEN agg
                           ELSE Spawn(agg, WantedKeysTask(p, req.Stream,
                                                          batch, msg))
               /\ ret' = [op |-> "handleUnsyncedKeysMsg", peer |-> p,
                          req |-> req, need |-> need,
                          err |-> IF nb.panic THEN "panic" ELSE "nil",
                          want |-> scan.want, consulted |-> scan.consulted,
                          batch |-> batch]
    /\ UNCHANGED <<regIn, regOut, peers, phase, outgoing, pq, chunkVars>>

(***************************************************************************)
(* The goroutines of handleUnsyncedKeysMsg.  A waiter returns from its     *)
(* wait function and calls wg.Done.  The aggregator passes wg.Wait, calls  *)
(* BatchDone (outcome "none": no finalizer; "proof": the finalizer signs   *)
(* and the proof is handed to SendPriority; "fail": the finalizer fails    *)
(* and the goroutine returns), then sends on next, which has room for one  *)
(* token.  The gated sender receives from next (its quit channel is never  *)
(* made, so that case of its select cannot fire) and hands the             *)
(* WantedKeysMsg to SendPriority.  None of them looks at the peer's quit;  *)
(* the field late of an aggregator records that one of its waits returned  *)
(* after the peer's quit was closed.                                       *)
(***************************************************************************)
WaiterReturns(t, h) ==
    /\ Running(t)
    /\ t.kind = "BatchDone"
    /\ t.at = "wait"
    /\ h \in t.waiting
    /\ tasks' = Spawn(Exit(tasks, t),
                      [t EXCEPT !.waiting = @ \ {h},
                                !.late = @ \/ quitClosed(t.peer)])
    /\ ret' = [op |-> "WaiterReturns", peer |-> t.peer, stream |-> t.stream,
               batch |-> t.batch]
    /\ UNCHANGED <<regIn, regOut, peers, phase, outgoing, incoming, pq,
                   chunkVars>>

AggregatorBatchDone(t, outcome) ==
    /\ Running(t)
    /\ t.kind = "BatchDone"
    /\ t.at = "wait"
    /\ t.waiting = {}
    /\ LET s == incoming[t.peer][t.stream] IN
          /\ tasks' = IF outcome = "fail" THEN Exit(tasks, t)
                      ELSE Spawn(Exit(tasks, t), [t EXCEPT !.at = "signal"])
          /\ pq' = IF outcome = "proof"
                   THEN [pq EXCEPT ![t.peer] =
                            Push(@, TakeoverProofMsg(t.stream, t.batch),
                                 s.priority)]
                   ELSE pq
          /\ ret' = [op |-> "BatchDone", peer |-> t.peer, stream |-> t.stream,
                     batch |-> t.batch, outcome |-> outcome, late |-> t.late]
    /\ UNCHANGED <<regIn, regOut, peers, phase, outgoing, incoming,
                   chunkVars>>

AggregatorSignal(t) ==
    /\ Running(t)
    /\ t.kind = "BatchDone"
    /\ t.at = "signal"
    /\ incoming[t.peer][t.stream].next = 0
    /\ incoming' = [incoming EXCEPT ![t.peer][t.stream].next = 1]
    /\ tasks' = Exit(tasks, t)
    /\ ret' = [op |-> "SignalNext", peer |-> t.peer, stream |-> t.stream,
               batch |-> t.batch]
    /\ UNCHANGED <<regIn, regOut, peers, phase, outgoing, pq, chunkVars>>

GatedSend(t) ==
    /\ Running(t)
    /\ t.kind = "WantedKeys"
    /\ incoming[t.peer][t.stream].next = 1
    /\ incoming' = [incoming EXCEPT
          ![t.peer][t.stream].next = 0,
          ![t.peer][t.stream].wanted =
              IF PushOk(pq[t.peer], incoming[t.peer][t.stream].priority)
                 /\ t.batch > @
              THEN t.batch ELSE @]
    /\ LET prio == incoming[t.peer][t.stream].priority IN
          /\ pq' = [pq EXCEPT ![t.peer] = Push(@, t.msg, prio)]
          /\ ret' = [op |-> "GatedSend", peer |-> t.peer, stream |-> t.stream,
                     batch |-> t.batch,
                     err |-> IF PushOk(pq[t.peer], prio) THEN "nil"
                             ELSE "push"]
    /\ tasks' = Exit(tasks, t)
    /\ UNCHANGED <<regIn, regOut, peers, phase, outgoing, chunkVars>>

(***************************************************************************)
(* The chunk store behind dbAccess, by its contract.  A chunk is           *)
(* [SData, ReqC]: SData is "" while the data is missing, ReqC is "nil",    *)
(* "open" or "closed".  get fails for a key the store does not hold;       *)
(* getOrCreateRequest returns the chunk it holds, or stores and returns a  *)
(* placeholder with a fresh open ReqC.                                     *)
(***************************************************************************)
Placeholder == [SData |-> "", ReqC |-> "open"]
getOk(key) == Has(store, key)
getOrCreateRequestCreated(key) == ~Has(store, key)
getOrCreateRequestChunk(key) ==
    IF Has(store, key) THEN store[key] ELSE Placeholder
Alive == recvLoop.at # "panicked"

\* a chunk stored by the local node outside the Streamer: data, no request
LocalStore(key) ==
    /\ Alive
    /\ ~Has(store, key)
    /\ store' = MapPut(store, key, [SData |-> DataOf(key), ReqC |-> "nil"])
    /\ ret' = [op |-> "LocalStore", key |-> key]
    /\ UNCHANGED <<regIn, regOut, peers, phase, outgoing, incoming, pq, tasks,
                   receiveC, deliveryC, recvLoop, closes, fetches>>

(***************************************************************************)
(* Streamer.Retrieve.  EachConn visits the connected peers nearest first   *)
(* and the callback stops after the first, which is target (none when no   *)
(* peer is connected).  The result of SendPriority is dropped.             *)
(***************************************************************************)
RetrieveTargets == IF peers = {} THEN {"none"} ELSE peers

Retrieve(q, key, target) ==
    IF target = "none" THEN q
    ELSE [q EXCEPT ![target] = Push(@, RetrieveRequestMsg(key), Top)]

RetrieveEnqueued(q, target) == target # "none" /\ PushOk(q[target], Top)

(***************************************************************************)
(* handleRetrieveRequestMsg.  getOrCreateRequest comes first, then the     *)
(* lookup of the retrieve-request outgoing stream.                         *)
(***************************************************************************)
RetrieveWaiterTask(p, key) ==
    [kind |-> "RetrieveWaiter", peer |-> p, key |-> key, at |-> "select"]

\* a handler that waits for every chunk, with or without a request
HasRequestAlways(chunk) == TRUE

\* chunk.ReqC != nil: the chunk is still requested
HasRequest(chunk) == chunk.ReqC # "nil"

handleRetrieveRequestMsg(p, req, target) ==
    /\ Alive
    /\ phase[p] = "running"
    /\ target \in RetrieveTargets
    /\ LET key == req.Key
           chunk == getOrCreateRequestChunk(key)
           created == getOrCreateRequestCreated(key)
           found == Has(outgoing[p], retrieveRequestStream)
           fetch == found /\ HasRequest(chunk) /\ created
       IN /\ store' = IF created THEN MapPut(store, key, chunk) ELSE store
          /\ (found /\ HasRequest(chunk)) => CanSpawn("RetrieveWaiter")
          /\ (found /\ ~HasRequest(chunk)) => Len(deliveryC[p]) < MaxDelivery
          /\ tasks' = IF found /\ HasRequest(chunk)
                      THEN Spawn(tasks, RetrieveWaiterTask(p, key))
                      ELSE tasks
          /\ pq' = IF fetch THEN Retrieve(pq, key, target) ELSE pq
          /\ fetches' = IF fetch /\ RetrieveEnqueued(pq, target)
                        THEN [fetches EXCEPT ![key] = @ + 1]
                        ELSE fetches
          /\ deliveryC' = IF found /\ ~HasRequest(chunk)
                          THEN [deliveryC EXCEPT ![p] = Append(@, key)]
                          ELSE deliveryC
          /\ ret' = [op |-> "handleRetrieveRequestMsg", peer |-> p,
                     req |-> req, created |-> created,
                     err |-> IF found THEN "nil" ELSE "not provided"]
    /\ UNCHANGED <<regIn, regOut, peers, phase, outgoing, incoming, receiveC,
                   recvLoop, closes>>

(***************************************************************************)
(* The waiter goroutine of handleRetrieveRequestMsg: a select over the     *)
(* chunk's ReqC, the peer's quit and the 3-minute ticker, then the send    *)
(* on deliveryC.                                                           *)
(***************************************************************************)
\* a waiter that goes on to deliver without the close of ReqC
RetrieveWaiterWakeEarly(t) ==
    /\ Alive
    /\ Running(t)
    /\ t.kind = "RetrieveWaiter"
    /\ t.at = "select"
    /\ tasks' = Spawn(Exit(tasks, t), [t EXCEPT !.at = "deliver"])
    /\ ret' = [op |-> "RetrieveWaiterWake", peer |-> t.peer, key |-> t.key]
    /\ UNCHANGED <<regIn, regOut, peers, phase, outgoing, incoming, pq,
                   chunkVars>>

RetrieveWaiterWake(t) ==
    /\ Alive
    /\ Running(t)
    /\ t.kind = "RetrieveWaiter"
    /\ t.at = "select"
    /\ store[t.key].ReqC = "closed"
    /\ tasks' = Spawn(Exit(tasks, t), [t EXCEPT !.at = "deliver"])
    /\ ret' = [op |-> "RetrieveWaiterWake", peer |-> t.peer, key |-> t.key]
    /\ UNCHANGED <<regIn, regOut, peers, phase, outgoing, incoming, pq,
                   chunkVars>>

RetrieveWaiterGiveUp(t, why) ==
    /\ Alive
    /\ Running(t)
    /\ t.kind = "RetrieveWaiter"
    /\ t.at = "select"
    /\ why = "quit" => quitClosed(t.peer)
    /\ tasks' = Exit(tasks, t)
    /\ ret' = [op |-> "RetrieveWaiterGiveUp", peer |-> t.peer, key |-> t.key,
               why |-> why]
    /\ UNCHANGED <<regIn, regOut, peers, phase, outgoing, incoming, pq,
                   chunkVars>>

RetrieveWaiterDeliver(t) ==
    /\ Alive
    /\ Running(t)
    /\ t.kind = "RetrieveWaiter"
    /\ t.at = "deliver"
    /\ Len(deliveryC[t.peer]) < MaxDelivery
    /\ deliveryC' = [deliveryC EXCEPT ![t.peer] = Append(@, t.key)]
    /\ tasks' = Exit(tasks, t)
    /\ ret' = [op |-> "RetrieveWaiterDeliver", peer |-> t.peer, key |-> t.key]
    /\ UNCHANGED <<regIn, regOut, peers, phase, outgoing, incoming, pq, store,
                   receiveC, recvLoop, closes, fetches>>

\* the retrieve-request outgoing streamer takes a chunk from its deliveryC
DeliveryReceive(p) ==
    /\ Alive
    /\ deliveryC[p] # <<>>
    /\ deliveryC' = [deliveryC EXCEPT ![p] = Tail(@)]
    /\ ret' = [op |-> "DeliveryReceive", peer |-> p, key |-> Head(deliveryC[p])]
    /\ UNCHANGED <<regIn, regOut, peers, phase, outgoing, incoming, pq, tasks,
                   store, receiveC, recvLoop, closes, fetches>>

(***************************************************************************)
(* handleChunkDeliveryMsg and processReceivedChunks.  The handler sends on *)
(* receiveC when the store holds the key.  The loop takes a delivery,      *)
(* looks the chunk up, sets its data and puts it, then closes its ReqC;    *)
(* closing a closed or a nil channel panics.                               *)
(***************************************************************************)
handleChunkDeliveryMsg(p, req) ==
    /\ Alive
    /\ phase[p] = "running"
    /\ IF getOk(req.Key)
       THEN /\ Len(receiveC) < ReceiveCCap
            /\ receiveC' = Append(receiveC, req)
       ELSE UNCHANGED receiveC
    /\ ret' = [op |-> "handleChunkDeliveryMsg", peer |-> p, req |-> req,
               err |-> IF getOk(req.Key) THEN "nil" ELSE "not found"]
    /\ UNCHANGED <<regIn, regOut, peers, phase, outgoing, incoming, pq, tasks,
                   store, deliveryC, recvLoop, closes, fetches>>

ReceivePut ==
    /\ recvLoop.at = "receive"
    /\ receiveC # <<>>
    /\ LET req == Head(receiveC) IN
          /\ receiveC' = Tail(receiveC)
          /\ IF getOk(req.Key)
             THEN /\ store' = [store EXCEPT ![req.Key].SData = req.SData]
                  /\ recvLoop' = [at |-> "close", key |-> req.Key]
             ELSE UNCHANGED <<store, recvLoop>>
          /\ ret' = [op |-> "ReceivePut", key |-> req.Key]
    /\ UNCHANGED <<regIn, regOut, peers, phase, outgoing, incoming, pq, tasks,
                   deliveryC, closes, fetches>>

ReceiveClose ==
    /\ recvLoop.at = "close"
    /\ LET key == recvLoop.key IN
          /\ closes' = [closes EXCEPT ![key] = @ + 1]
          /\ IF store[key].ReqC = "open"
             THEN /\ store' = [store EXCEPT ![key].ReqC = "closed"]
                  /\ recvLoop' = [at |-> "receive"]
             ELSE /\ recvLoop' = [at |-> "panicked", key |-> key,
                                  ReqC |-> store[key].ReqC]
                  /\ UNCHANGED store
          /\ ret' = [op |-> "ReceiveClose", key |-> key]
    /\ UNCHANGED <<regIn, regOut, peers, phase, outgoing, incoming, pq, tasks,
                   receiveC, deliveryC, fetches>>

(***************************************************************************)
(* Inputs.                                                                 *)
(***************************************************************************)
Ranges == {<<0, 0>>, <<0, MaxPos>>}
\* the stream key, the range and the live flag of the Subscribe calls tried
SubscribeInputs ==
    {[t |-> <<>>, from |-> 0, to |-> 0, live |-> TRUE],
     [t |-> <<"k">>, from |-> 0, to |-> MaxPos, live |-> FALSE]}

(***************************************************************************)
(* Spec: the node is set up, a peer runs, the local side subscribes to     *)
(* streams of connected and of unknown peers, the egress worker drains.    *)
(***************************************************************************)
SubscribeCall ==
    \E p \in PeerIds, s \in StreamNames, i \in SubscribeInputs,
       priority \in PriorityInputs, ctorOk \in BOOLEAN :
        Subscribe(p, s, i.t, i.from, i.to, priority, i.live, ctorOk)

Next ==
    \/ \E s \in StreamNames : RegisterIncomingStreamer(s)
    \/ RunStart("p1")
    \/ RunSubscribe("p1")
    \/ RunCloseQuit("p1")
    \/ RunDeletePeer("p1")
    \/ SubscribeCall
    \/ Egress("p1")

Spec == Init /\ [][Next]_vars


(***************************************************************************)
(* SpecOut: the upstream side of one peer.  The remote subscribes; the     *)
(* SendUnsyncedKeys goroutines offer batches; the remote answers with      *)
(* WantedKeysMsg; the egress worker drains.                                *)
(***************************************************************************)
SubscribeMsgInputs ==
    {SubscribeMsg(<<"s">>, <<>>, 0, 0, Mid),
     SubscribeMsg(<<"s">>, <<>>, 0, 0, PriorityQueue),
     SubscribeMsg(retrieveRequestStream, <<>>, 0, 0, Top)}

WantInputs == {<<>>} \cup {<<b>> : b \in 0 .. (Pow2(MaxBatchLen) - 1)}
AvailInputs == {{"h1"}, HashIds}
WantedKeysMsgInputs ==
    {WantedKeysMsg(<<"s">>, <<>>, w, 0, 0) : w \in WantInputs}
        \cup {WantedKeysMsg(retrieveRequestStream, <<>>, <<>>, 0, 0)}

SetNextBatchStep ==
    \E t \in BagToSet(tasks), ok \in BOOLEAN, hashes \in Batches :
        /\ ~ok => hashes = EmptyBuf
        /\ SendUnsyncedKeysSetBatch(t, ok, hashes)

NextOut ==
    \/ RegisterOutgoingStreamer(<<"s">>)
    \/ RunStart("p1")
    \/ RunSubscribe("p1")
    \/ \E req \in SubscribeMsgInputs, ctorOk \in BOOLEAN :
          handleSubscribeMsg("p1", req, ctorOk)
    \/ SetNextBatchStep
    \/ \E t \in BagToSet(tasks) : SendUnsyncedKeysSend(t)
    \/ \E req \in WantedKeysMsgInputs, avail \in AvailInputs :
          /\ req.Want = <<>> => avail = HashIds
          /\ handleWantedKeysMsg("p1", req, avail)
    \/ Egress("p1")

SpecOut == Init /\ [][NextOut]_vars

(***************************************************************************)
(* SpecIn: the downstream side of one peer.  The local side subscribes;    *)
(* the remote offers batches; waiters, aggregators and gated senders run;  *)
(* the egress worker drains; the peer's Run returns.                       *)
(***************************************************************************)
NeedInputs == SUBSET (0 .. (MaxBatchLen - 1))
\* a buffer of one hash and one byte more
RaggedBatches == {Buf(<<HashOf(1)>>, 1)}
UnsyncedKeysMsgInputs ==
    {UnsyncedKeysMsg(<<"s">>, <<>>, 0, to, hashes, "handover") :
        to \in Positions, hashes \in Batches \cup RaggedBatches}
        \cup {UnsyncedKeysMsg(<<>>, <<>>, 0, 0, EmptyBuf, "handover")}

NextIn ==
    \/ RegisterIncomingStreamer(<<"s">>)
    \/ RunStart("p1")
    \/ RunSubscribe("p1")
    \/ \E live \in BOOLEAN :
          Subscribe("p1", <<"s">>, <<>>, 0, 0, Mid, live, TRUE)
    \/ \E req \in UnsyncedKeysMsgInputs, need \in NeedInputs :
          /\ \A h \in need : h < Len(req.Hashes.hs)
          /\ handleUnsyncedKeysMsg("p1", req, need)
    \/ \E t \in BagToSet(tasks) : \E h \in 0 .. (MaxBatchLen - 1) :
          WaiterReturns(t, h)
    \/ \E t \in BagToSet(tasks), outcome \in {"none", "proof", "fail"} :
          AggregatorBatchDone(t, outcome)
    \/ \E t \in BagToSet(tasks) : AggregatorSignal(t)
    \/ \E t \in BagToSet(tasks) : GatedSend(t)
    \/ Egress("p1")
    \/ RunCloseQuit("p1")
    \/ RunDeletePeer("p1")

SpecIn == Init /\ [][NextIn]_vars

(***************************************************************************)
(* SpecChunk: retrieve requests and chunk deliveries of one peer.  The     *)
(* remote subscribes to the retrieve-request stream, asks for chunks and   *)
(* delivers chunks (at most MaxInFlight deliveries wait in receiveC); the  *)
(* local node stores chunks of its own; the receive loop, the waiters and  *)
(* the egress worker run.                                                  *)
(***************************************************************************)
ChunkDeliveryMsgInputs == {ChunkDeliveryMsg(k, DataOf(k)) : k \in HashIds}

NextChunk ==
    \/ RegisterOutgoingStreamer(retrieveRequestStream)
    \/ RunStart("p1")
    \/ RunSubscribe("p1")
    \/ handleSubscribeMsg("p1",
          SubscribeMsg(retrieveRequestStream, <<>>, 0, 0, Top), TRUE)
    \/ \E k \in HashIds : LocalStore(k)
    \/ \E k \in HashIds, target \in PeerIds \cup {"none"} :
          handleRetrieveRequestMsg("p1", RetrieveRequestMsg(k), target)
    \/ \E t \in BagToSet(tasks) : RetrieveWaiterWake(t)
    \/ \E t \in BagToSet(tasks), why \in {"quit", "timeout"} :
          RetrieveWaiterGiveUp(t, why)
    \/ \E t \in BagToSet(tasks) : RetrieveWaiterDeliver(t)
    \/ DeliveryReceive("p1")
    \/ \E req \in ChunkDeliveryMsgInputs :
          /\ Len(receiveC) < MaxInFlight
          /\ handleChunkDeliveryMsg("p1", req)
    \/ ReceivePut
    \/ ReceiveClose
    \/ Alive /\ Egress("p1")

SpecChunk == Init /\ [][NextChunk]_vars

(***************************************************************************)
(* SpecKeys: streams with a key.  Both sides of one peer: the local side   *)
(* subscribes to stream "s" with and without a key, the remote subscribes  *)
(* to it with and without a key, and the messages of both directions name  *)
(* the stream and the key.                                                 *)
(***************************************************************************)
NextKeys ==
    \/ RegisterIncomingStreamer(<<"s">>)
    \/ RegisterOutgoingStreamer(<<"s">>)
    \/ RunStart("p1")
    \/ RunSubscribe("p1")
    \/ \E t \in StreamKeys :
          Subscribe("p1", <<"s">>, t, 0, 0, Mid, TRUE, TRUE)
    \/ \E t \in StreamKeys :
          handleSubscribeMsg("p1", SubscribeMsg(<<"s">>, t, 0, 0, Mid), TRUE)
    \/ \E t \in BagToSet(tasks) : SendUnsyncedKeysSetBatch(t, TRUE, EmptyBuf)
    \/ \E t \in BagToSet(tasks) : SendUnsyncedKeysSend(t)
    \/ \E t \in StreamKeys :
          handleWantedKeysMsg("p1", WantedKeysMsg(<<"s">>, t, <<>>, 0, 0),
                              HashIds)
    \/ handleTakeoverProofMsg("p1", TakeoverProofMsg(<<"s">>, 0))
    \/ \E t \in StreamKeys, to \in Positions :
          handleUnsyncedKeysMsg("p1",
              UnsyncedKeysMsg(<<"s">>, t, 0, to, EmptyBuf, "handover"), {})
    \/ \E t \in BagToSet(tasks) : AggregatorBatchDone(t, "none")
    \/ \E t \in BagToSet(tasks) : AggregatorSignal(t)
    \/ \E t \in BagToSet(tasks) : GatedSend(t)
    \/ Egress("p1")

SpecKeys == Init /\ [][NextKeys]_vars

(***************************************************************************)
(* SpecRun: the peers connect, run and disconnect in any order and connect *)
(* again; while a peer runs, the local side subscribes to a stream of it   *)
(* and its egress worker drains.  A node id has one Run at a time.         *)
(***************************************************************************)
NextRun ==
    \/ RegisterIncomingStreamer(<<"s">>)
    \/ \E p \in PeerIds : RunStart(p)
    \/ \E p \in PeerIds : RunAgain(p)
    \/ \E p \in PeerIds : RunSubscribe(p)
    \/ \E p \in PeerIds : Subscribe(p, <<"s">>, <<>>, 0, 0, Mid, TRUE, TRUE)
    \/ \E p \in PeerIds : Egress(p)
    \/ \E p \in PeerIds : RunCloseQuit(p)
    \/ \E p \in PeerIds : RunDeletePeer(p)

SpecRun == Init /\ [][NextRun]_vars

(***************************************************************************)
(* StreamerPeer.HandleMsg: a switch on the type of the decoded message,    *)
(* with a case for SubscribeMsg, UnsyncedKeysMsg, TakeoverProofMsg,        *)
(* WantedKeysMsg and ChunkDeliveryMsg; every other type takes the default  *)
(* branch.  ctorOk, need and avail are what the handlers' callees answer.  *)
(***************************************************************************)
HandleMsg(p, msg, ctorOk, need, avail) ==
    \/ /\ msg.type = "Subscribe"
       /\ handleSubscribeMsg(p, msg, ctorOk)
    \/ /\ msg.type = "UnsyncedKeys"
       /\ handleUnsyncedKeysMsg(p, msg, need)
    \/ /\ msg.type = "TakeoverProof"
       /\ handleTakeoverProofMsg(p, msg)
    \/ /\ msg.type = "WantedKeys"
       /\ handleWantedKeysMsg(p, msg, avail)
    \/ /\ msg.type = "ChunkDelivery"
       /\ handleChunkDeliveryMsg(p, msg)
    \/ /\ msg.type \notin {"Subscribe", "UnsyncedKeys", "TakeoverProof",
                           "WantedKeys", "ChunkDelivery"}
       /\ phase[p] = "running"
       /\ ret' = [op |-> "HandleMsg", peer |-> p, req |-> msg,
                  err |-> "unknown message type"]
       /\ UNCHANGED <<regIn, regOut, peers, phase, outgoing, incoming, pq,
                      tasks, chunkVars>>

(***************************************************************************)
(* SpecHandle: one peer whose dispatcher is handed one message of every    *)
(* type of the protocol, and a handshake, in any order; the stream "s" is  *)
(* provided in both directions and the chunk h1 is stored locally.         *)
(***************************************************************************)
HandshakeMsg == [type |-> "Handshake"]
HandleMsgInputs ==
    {SubscribeMsg(<<"s">>, <<>>, 0, 0, Mid),
     UnsyncedKeysMsg(<<"s">>, <<>>, 0, 0, EmptyBuf, "handover"),
     TakeoverProofMsg(<<"s">>, 0),
     WantedKeysMsg(<<"s">>, <<>>, <<>>, 0, 0),
     ChunkDeliveryMsg("h1", DataOf("h1")),
     RetrieveRequestMsg("h1"),
     HandshakeMsg}

NextHandle ==
    \/ RegisterIncomingStreamer(<<"s">>)
    \/ RegisterOutgoingStreamer(<<"s">>)
    \/ RunStart("p1")
    \/ RunSubscribe("p1")
    \/ Subscribe("p1", <<"s">>, <<>>, 0, 0, Mid, TRUE, TRUE)
    \/ LocalStore("h1")
    \/ \E msg \in HandleMsgInputs :
          HandleMsg("p1", msg, TRUE, {}, HashIds)
    \/ Egress("p1")

SpecHandle == Init /\ [][NextHandle]_vars

(***************************************************************************)
(* SpecDispatch: the dispatcher of one peer takes chunk deliveries for one *)
(* key as fast as the remote sends them, up to the capacity of receiveC;   *)
(* the receive loop runs at its own pace.  The key is in the store either  *)
(* as a chunk stored locally or as the placeholder of a retrieve request.  *)
(***************************************************************************)
NextDispatch ==
    \/ RunStart("p1")
    \/ RunSubscribe("p1")
    \/ LocalStore("h1")
    \/ handleRetrieveRequestMsg("p1", RetrieveRequestMsg("h1"), "p1")
    \/ handleChunkDeliveryMsg("p1", ChunkDeliveryMsg("h1", DataOf("h1")))
    \/ ReceivePut
    \/ ReceiveClose

SpecDispatch == Init /\ [][NextDispatch]_vars

(***************************************************************************)
(* SpecNextBatch: incomingStreamer.nextBatch as a function of its receiver *)
(* and its argument.  The receiver is drawn with every session mark and    *)
(* every list of completed intervals up to MaxMark; ret carries the input  *)
(* and then the result.                                                    *)
(***************************************************************************)
Marks == 0 .. MaxMark
\* interval lists [a0, b0, a1, b1]: strictly increasing, at most two ranges
IntervalInputs ==
    {iv \in SeqsUpTo(Marks, 4) :
        /\ Len(iv) \in {0, 2, 4}
        /\ \A i \in 1 .. (Len(iv) - 1) : iv[i] < iv[i + 1]}
NextBatchInputs ==
    [op : {"nextBatchInput"},
     s : [live : BOOLEAN, sessionAt : Marks, intervals : IntervalInputs],
     from : Marks]

InitNextBatch ==
    /\ regIn = {}
    /\ regOut = {}
    /\ peers = {}
    /\ phase = [p \in PeerIds |-> "new"]
    /\ outgoing = [p \in PeerIds |-> <<>>]
    /\ incoming = [p \in PeerIds |-> <<>>]
    /\ pq = [p \in PeerIds |-> EmptyPq]
    /\ store = <<>>
    /\ receiveC = <<>>
    /\ deliveryC = [p \in PeerIds |-> <<>>]
    /\ recvLoop = [at |-> "receive"]
    /\ tasks = EmptyBag
    /\ closes = [k \in HashIds |-> 0]
    /\ fetches = [k \in HashIds |-> 0]
    /\ ret \in NextBatchInputs

nextBatchCall ==
    /\ ret.op = "nextBatchInput"
    /\ ret' = [op |-> "nextBatch", s |-> ret.s, from |-> ret.from,
               out |-> nextBatch(ret.s, ret.from)]
    /\ UNCHANGED <<regIn, regOut, peers, phase, outgoing, incoming, pq, tasks,
                   chunkVars>>

SpecNextBatch == InitNextBatch /\ [][nextBatchCall]_vars

(***************************************************************************)
(* Claims settled under Spec.                                              *)
(***************************************************************************)
IsSubscribeCall(r) == r.op \in {"Subscribe", "RunSubscribe"}

\* the named levels, lowest first
PriorityOrder == <<Low, Mid, High, Top>>

C7_SubscribeEnqueues ==
    [][(IsSubscribeCall(ret') /\ ret'.err = "nil") =>
          LET p == ret'.peer
              prio == ret'.priority
          IN /\ Has(incoming'[p], ret'.stream)
             /\ incoming'[p][ret'.stream].next = 1
             /\ prio \in Levels
             /\ pq'[p] = [pq[p] EXCEPT
                   ![prio] = Append(@, SubscribeMsg(ret'.stream, ret'.key,
                                ret'.from, ret'.to, prio))]]_vars

\* C8: a Subscribe call whose stream name has no incoming constructor, whose
\* peer is not in the peer table, whose constructor fails or whose stream is
\* already in the peer's incoming map returns an error, leaves the incoming
\* maps as they were and enqueues nothing.
C8_SubscribeErrorCase(r) ==
    \/ r.stream \notin regIn
    \/ r.peer \notin peers
    \/ ~r.ctorOk
    \/ Has(incoming[r.peer], r.stream)

C8_SubscribeErrors ==
    [][(IsSubscribeCall(ret') /\ C8_SubscribeErrorCase(ret')) =>
          /\ ret'.err # "nil"
          /\ incoming' = incoming
          /\ pq' = pq]_vars

\* a Subscribe for a stream that was already registered has just failed
C8_Witness ==
    /\ ret.op = "Subscribe"
    /\ ret.err = "already registered"
    /\ ret.ctorOk
    /\ ret.peer \in peers
    /\ Has(incoming[ret.peer], ret.stream)


(***************************************************************************)
(* Claims settled under SpecOut.                                           *)
(***************************************************************************)
\* the set bits of a want bitvector over l bits, in increasing order
WantedSeq(want, l) ==
    SelectSeq([j \in 1 .. l |-> j - 1], LAMBDA i : BvGet(want, i))

\* the items appended to level prio of peer p's queue by the last step
Appended(p, prio) ==
    SubSeq(pq'[p][prio], Len(pq[p][prio]) + 1, Len(pq'[p][prio]))

\* level prio of p's queue has grown by deliveries of the first n wanted
\* hashes, in order, and nothing else of the queue has changed
DeliveredFirst(p, prio, hashes, ws, n) ==
    IF prio \in Levels
    THEN /\ pq'[p] = [pq[p] EXCEPT ![prio] = pq[p][prio] \o Appended(p, prio)]
         /\ Len(Appended(p, prio)) = n
         /\ \A j \in 1 .. n :
               /\ Appended(p, prio)[j].type = "ChunkDelivery"
               /\ Appended(p, prio)[j].Key = hashes.hs[ws[j] + 1]
    ELSE n = 0 /\ pq'[p] = pq[p]

\* a WantedKeysMsg for a registered stream whose want parses
WantedKeysParsed(r) ==
    /\ r.op = "handleWantedKeysMsg"
    /\ Has(outgoing[r.peer], r.req.Stream)
    /\ BvFromBytesOk(r.req.Want,
          ByteLen(outgoing[r.peer][r.req.Stream].currentBatch) \div HashSize)

\* C3 as claimed: for every set bit i of want exactly one ChunkDeliveryMsg
\* with key hash_i is enqueued at the stream's priority and none for a clear
\* bit, whatever the queue holds.
C3_OneDeliveryPerSetBit ==
    [][WantedKeysParsed(ret') =>
          LET s == outgoing[ret'.peer][ret'.req.Stream]
              ws == WantedSeq(ret'.req.Want,
                              ByteLen(s.currentBatch) \div HashSize)
          IN DeliveredFirst(ret'.peer, s.priority, s.currentBatch, ws,
                            Len(ws))]_vars

\* C3 as amended: the deliveries enqueued are one per set bit, in increasing
\* order of i, up to the first wanted hash for which GetData returns nil or
\* whose push the queue rejects; the handler returns an error exactly when it
\* stopped early; nothing is enqueued for a clear bit.
C3_DeliveriesUntilFirstFailure ==
    [][WantedKeysParsed(ret') =>
          LET p == ret'.peer
              s == outgoing[p][ret'.req.Stream]
              ws == WantedSeq(ret'.req.Want,
                              ByteLen(s.currentBatch) \div HashSize)
          IN \E n \in 0 .. Len(ws) :
                /\ DeliveredFirst(p, s.priority, s.currentBatch, ws, n)
                /\ \A j \in 1 .. n : s.currentBatch.hs[ws[j] + 1] \in ret'.avail
                /\ (ret'.err = "nil") <=> (n = Len(ws))
                /\ n < Len(ws) =>
                      \/ s.currentBatch.hs[ws[n + 1] + 1] \notin ret'.avail
                      \/ ~PushOk(pq'[p], s.priority)]_vars

\* both hashes of a batch of two were wanted and have just been delivered
C3_Witness ==
    /\ ret.op = "handleWantedKeysMsg"
    /\ ret.err = "nil"
    /\ ret.req.Want = <<3>>
    /\ LET q == pq[ret.peer][Mid] IN
          /\ Len(q) >= 2
          /\ q[Len(q) - 1] = ChunkDeliveryMsg("h1", DataOf("h1"))
          /\ q[Len(q)] = ChunkDeliveryMsg("h2", DataOf("h2"))

\* a SubscribeMsg for a stream that is already in the peer's outgoing map
DuplicateSubscribeMsg(r) ==
    /\ r.op = "handleSubscribeMsg"
    /\ Has(outgoing[r.peer], SubscribeMsgKey(r.req))

\* C9 as claimed: handling a SubscribeMsg for a (name, key) already in the
\* outgoing map returns no error, leaves the outgoing entries unchanged and
\* starts no task.
C9_DuplicateSubscribeIgnored ==
    [][DuplicateSubscribeMsg(ret') =>
          /\ ret'.err = "nil"
          /\ outgoing' = outgoing
          /\ tasks' = tasks
          /\ pq' = pq]_vars

\* C9 as amended: such a SubscribeMsg returns no error when the constructor
\* succeeds (and the constructor's error when it fails); in both cases the
\* outgoing entries stay unchanged, no task is started and nothing is
\* enqueued, so that handling it again leaves the same state.
C9_DuplicateSubscribeNoEffect ==
    [][DuplicateSubscribeMsg(ret') =>
          /\ ret'.err = (IF ret'.ctorOk THEN "nil" ELSE "constructor")
          /\ outgoing' = outgoing
          /\ tasks' = tasks
          /\ pq' = pq]_vars

\* a SubscribeMsg has just been handled without error for a stream whose
\* entry already holds an offered batch
C9_Witness ==
    /\ ret.op = "handleSubscribeMsg"
    /\ ret.err = "nil"
    /\ Has(outgoing[ret.peer], SubscribeMsgKey(ret.req))
    /\ outgoing[ret.peer][SubscribeMsgKey(ret.req)].currentBatch # EmptyBuf

\* C10: every queued UnsyncedKeysMsg carries the stream name of an outgoing
\* handler of that peer, is queued at that handler's priority and carries a
\* handover proof.
C10_UnsyncedKeysNamesStream ==
    \A p \in PeerIds, l \in Levels :
        \A i \in 1 .. Len(pq[p][l]) :
            LET m == pq[p][l][i] IN
            m.type = "UnsyncedKeys" =>
               /\ m.Proof = "handover"
               /\ \E k \in DOMAIN outgoing[p] :
                     /\ outgoing[p][k].handler.name = m.Stream
                     /\ outgoing[p][k].priority = l


(***************************************************************************)
(* Claims settled under SpecIn.                                            *)
(***************************************************************************)
\* C1: when an UnsyncedKeysMsg with k = len(hashes)/HashSize hashes is
\* handled, NeedData is consulted once for each of the hashes 0 .. k-1, and
\* bit i of the want bitvector (the one put into the WantedKeysMsg, when one
\* is made) is set exactly when NeedData returned a wait function for hash i.
C1_WantMatchesNeedData ==
    [][(ret'.op = "handleUnsyncedKeysMsg" /\ ret'.err = "nil") =>
          LET k == ByteLen(ret'.req.Hashes) \div HashSize IN
             /\ ret'.consulted = [j \in 1 .. k |-> j - 1]
             /\ \A i \in 0 .. (k - 1) :
                   BvGet(ret'.want, i) <=> (i \in ret'.need)
             /\ \A t \in BagToSet(tasks') :
                   (/\ t.kind = "WantedKeys"
                    /\ t.peer = ret'.peer
                    /\ t.stream = ret'.req.Stream
                    /\ t.batch = ret'.batch) =>
                      \A i \in 0 .. (k - 1) :
                         BvGet(t.msg.Want, i) <=> (i \in ret'.need)]_vars

\* C2: the WantedKeysMsg answering batch N+1 of a stream is enqueued only
\* when the aggregator of batch N is past wg.Wait and BatchDone, that is when
\* every wait function of batch N has returned.
C2_WantedKeysAfterPreviousBatch ==
    [][(ret'.op = "GatedSend" /\ ret'.err = "nil" /\ ret'.batch > 1) =>
          ~\E t \in BagToSet(tasks) :
              /\ t.kind = "BatchDone"
              /\ t.peer = ret'.peer
              /\ t.stream = ret'.stream
              /\ t.batch = ret'.batch - 1
              /\ t.at = "wait"]_vars


(***************************************************************************)
(* Claims settled under SpecChunk.                                         *)
(***************************************************************************)
\* C4: the receive loop closes the pending signal of a chunk at most once,
\* never closes a signal that is absent or already closed, and a signal is
\* closed only on a chunk whose delivered data has been put.
C4_PendingClosedOnceAfterPut ==
    /\ recvLoop.at # "panicked"
    /\ \A k \in HashIds : closes[k] <= 1
    /\ \A k \in DOMAIN store : store[k].ReqC = "closed" => store[k].SData # ""

\* C5: while the store holds a placeholder with an open pending signal for a
\* key, exactly one RetrieveRequestMsg has been enqueued for that key.
C5_OneFetchInFlight ==
    \A k \in DOMAIN store : store[k].ReqC = "open" => fetches[k] = 1


\* the lookup of the handler that has just run failed: no handler of the
\* named stream, or no chunk-store entry for the delivered key
LookupFailed(r) ==
    \/ /\ r.op = "handleUnsyncedKeysMsg"
       /\ ~Has(incoming[r.peer], r.req.Stream)
    \/ /\ r.op \in {"handleWantedKeysMsg", "handleTakeoverProofMsg"}
       /\ ~Has(outgoing[r.peer], r.req.Stream)
    \/ /\ r.op = "handleRetrieveRequestMsg"
       /\ ~Has(outgoing[r.peer], retrieveRequestStream)
    \/ /\ r.op = "handleChunkDeliveryMsg"
       /\ ~getOk(r.req.Key)

\* C20: a handler whose lookup fails returns an error and has changed no
\* per-peer state and no chunk-store state, started no task, forwarded
\* nothing to receiveC and enqueued nothing.
C20_FailedLookupChangesNothing ==
    [][LookupFailed(ret') =>
          /\ ret'.err # "nil"
          /\ UNCHANGED <<regIn, regOut, peers, phase, outgoing, incoming, pq,
                         store, receiveC, deliveryC, tasks, recvLoop, closes,
                         fetches>>]_vars


\* a RetrieveRequestMsg has just been handled for a chunk the store held
\* with its data and without a pending signal
StoredWithData(r) ==
    /\ r.op = "handleRetrieveRequestMsg"
    /\ Has(store, r.req.Key)
    /\ store[r.req.Key].ReqC = "nil"

\* the handler has put the chunk once on the delivery channel of the peer's
\* retrieve-request stream and has done nothing else
DeliveredOnce(r) ==
    /\ r.err = "nil"
    /\ deliveryC' = [deliveryC EXCEPT ![r.peer] = Append(@, r.req.Key)]
    /\ pq' = pq
    /\ fetches' = fetches
    /\ tasks' = tasks
    /\ store' = store

\* C21 as claimed: whenever handleRetrieveRequestMsg finds the chunk stored
\* with data, it puts the chunk exactly once on the delivery channel,
\* enqueues no RetrieveRequestMsg and starts no waiter.
C21_StoredChunkDeliveredOnce ==
    [][StoredWithData(ret') => DeliveredOnce(ret')]_vars

\* C21 as amended: the same, for a peer that has an outgoing handler of the
\* retrieve-request stream; without one the handler returns the lookup's
\* error and delivers nothing.
C21_StoredChunkDeliveredOnceIfProvided ==
    [][StoredWithData(ret') =>
          IF Has(outgoing[ret'.peer], retrieveRequestStream)
          THEN DeliveredOnce(ret')
          ELSE /\ ret'.err = "not provided"
               /\ UNCHANGED <<deliveryC, pq, fetches, tasks, store>>]_vars

\* a request for a chunk stored with data has just been answered from the
\* store: the chunk is the last item of the delivery channel
C21_Witness ==
    /\ ret.op = "handleRetrieveRequestMsg"
    /\ ret.err = "nil"
    /\ ~ret.created
    /\ store[ret.req.Key].ReqC = "nil"
    /\ deliveryC[ret.peer] # <<>>
    /\ deliveryC[ret.peer][Len(deliveryC[ret.peer])] = ret.req.Key

\* the retrieve waiters of key k, whatever their position
WaitersOf(b, k) ==
    {t \in BagToSet(b) : t.kind = "RetrieveWaiter" /\ t.key = k}

\* C22: a retrieve waiter puts its chunk on the delivery channel at most
\* once (it exits with the send) and only after it has seen ReqC closed; a
\* waiter that gives up on the timeout or on quit puts nothing there and
\* leaves the store as it is, so a placeholder whose signal is open at the
\* timeout is still in the store with its signal open after it.
C22_WaiterDeliversOnceAfterClose ==
    [][/\ ret'.op = "RetrieveWaiterDeliver" =>
             /\ store[ret'.key].ReqC = "closed"
             /\ deliveryC' = [deliveryC EXCEPT ![ret'.peer] =
                                 Append(@, ret'.key)]
             /\ \E t \in WaitersOf(tasks, ret'.key) :
                   /\ t.at = "deliver"
                   /\ tasks' = Exit(tasks, t)
       /\ ret'.op = "RetrieveWaiterGiveUp" =>
             /\ deliveryC' = deliveryC
             /\ store' = store
             /\ \E t \in WaitersOf(tasks, ret'.key) :
                   /\ t.at = "select"
                   /\ tasks' = Exit(tasks, t)
       /\ ret'.op \notin {"RetrieveWaiterDeliver", "handleRetrieveRequestMsg"}
             => \A p \in PeerIds : Len(deliveryC'[p]) <= Len(deliveryC[p])]_vars

\* a waiter has just delivered a chunk whose signal the receive loop closed
C22_Witness ==
    /\ ret.op = "RetrieveWaiterDeliver"
    /\ store[ret.key].ReqC = "closed"
    /\ closes[ret.key] = 1
    /\ deliveryC[ret.peer] # <<>>
    /\ deliveryC[ret.peer][Len(deliveryC[ret.peer])] = ret.key

\* C26: for every placeholder with an open pending signal in the store, a
\* RetrieveRequestMsg for its key has been enqueued to some peer.
C26_PlaceholderHasFetch ==
    \A k \in DOMAIN store : store[k].ReqC = "open" => fetches[k] >= 1


(***************************************************************************)
(* Claims settled under SpecKeys.                                          *)
(***************************************************************************)
\* the peer has an outgoing handler made for stream name with key key
OutgoingHandlerFor(p, name, key) ==
    \E k \in DOMAIN outgoing[p] :
        outgoing[p][k].handler = [name |-> name, key |-> key]

\* C11: registration and lookup use the key name||key.  A WantedKeysMsg or
\* a TakeoverProofMsg that names a stream for which the peer has an outgoing
\* handler finds it; a Subscribe that succeeds leaves an incoming entry under
\* name||key, which an UnsyncedKeysMsg naming the stream then finds; and a
\* Subscribe for a (name, key) that has no entry under name||key yet
\* succeeds, so that streams of one name and different keys coexist.
C11_LookupByNameAndKey ==
    [][/\ (/\ ret'.op = "handleWantedKeysMsg"
           /\ OutgoingHandlerFor(ret'.peer, ret'.req.Stream, ret'.req.Key))
          => ret'.err # "not provided"
       /\ (/\ ret'.op = "handleTakeoverProofMsg"
           /\ \E t \in StreamKeys :
                 OutgoingHandlerFor(ret'.peer, ret'.req.Stream, t))
          => ret'.err # "not provided"
       /\ (ret'.op = "Subscribe" /\ ret'.err = "nil")
          => Has(incoming'[ret'.peer], ret'.stream \o ret'.key)
       /\ (/\ ret'.op = "Subscribe"
           /\ ret'.stream \in regIn
           /\ ret'.peer \in peers
           /\ ret'.ctorOk
           /\ ~Has(incoming[ret'.peer], ret'.stream \o ret'.key))
          => ret'.err = "nil"]_vars

(***************************************************************************)
(* Further claims settled under SpecIn.                                    *)
(***************************************************************************)
\* C12: a TakeoverProof of a batch is enqueued only once every wait of the
\* batch has returned, and never for a batch one of whose waits was still
\* unresolved when the peer's quit was closed.
C12_NoProofForPartialBatch ==
    [][(/\ ret'.op = "BatchDone"
        /\ ret'.outcome = "proof"
        /\ pq' # pq) =>
          /\ ~ret'.late
          /\ \A t \in BagToSet(tasks) :
                (/\ t.kind = "BatchDone"
                 /\ t.peer = ret'.peer
                 /\ t.stream = ret'.stream
                 /\ t.batch = ret'.batch) => t.waiting = {}]_vars

\* the aggregator of a batch is blocked for good: it is at its send on next,
\* next is full, no gated sender of the stream is there to empty it, and
\* the peer's dispatcher has returned, so that none will be started
AggregatorBlocked(t) ==
    /\ t.kind = "BatchDone"
    /\ t.at = "signal"
    /\ incoming[t.peer][t.stream].next = 1
    /\ quitClosed(t.peer)
    /\ ~\E u \in BagToSet(tasks) :
          u.kind = "WantedKeys" /\ u.peer = t.peer /\ u.stream = t.stream

\* C13: once the waits of a batch have returned, its aggregator goes on to
\* signal next and terminates by that signal, whatever BatchDone and the
\* finalizer return and whether or not a reply was made for the batch: the
\* step past wg.Wait and BatchDone leaves the aggregator at its send on next,
\* and no aggregator is ever blocked for good at that send.
C13_AggregatorSignalsNext ==
    [][/\ ret'.op = "BatchDone" =>
             \E t \in BagToSet(tasks') :
                 /\ t.kind = "BatchDone"
                 /\ t.peer = ret'.peer
                 /\ t.stream = ret'.stream
                 /\ t.batch = ret'.batch
                 /\ t.at = "signal"
       /\ \A t \in BagToSet(tasks') : ~(AggregatorBlocked(t))']_vars

\* a gated sender is blocked for good: the peer's quit is closed, next is
\* empty and no aggregator of the stream is left to fill it (the sender's
\* own quit channel is nil, and the dispatcher has returned)
SenderBlocked(t) ==
    /\ t.kind = "WantedKeys"
    /\ quitClosed(t.peer)
    /\ incoming[t.peer][t.stream].next = 0
    /\ ~\E u \in BagToSet(tasks) :
          u.kind = "BatchDone" /\ u.peer = t.peer /\ u.stream = t.stream

\* C15: once a peer's quit is closed no task of the peer stays blocked for
\* good: no gated sender is left waiting on a next that nobody will signal,
\* and no aggregator is left at a send on next that nobody will receive.
C15_NoTaskBlockedAfterQuit ==
    \A t \in BagToSet(tasks) : ~SenderBlocked(t) /\ ~AggregatorBlocked(t)


\* an UnsyncedKeysMsg whose hashes buffer is not a whole number of hashes
RaggedUnsyncedKeys(r) ==
    /\ r.op = "handleUnsyncedKeysMsg"
    /\ ByteLen(r.req.Hashes) % HashSize # 0

\* C19: handleUnsyncedKeysMsg rejects a ragged hash buffer with an error; it
\* starts no waiter and no aggregator, leaves next as it was and enqueues no
\* WantedKeysMsg (none is handed to a sender task either).
C19_RaggedBufferRejected ==
    [][RaggedUnsyncedKeys(ret') =>
          /\ ret'.err # "nil"
          /\ tasks' = tasks
          /\ pq' = pq
          /\ \A k \in DOMAIN incoming[ret'.peer] :
                incoming'[ret'.peer][k].next = incoming[ret'.peer][k].next]_vars


\* C27: when the TakeoverProof of batch N of a stream is enqueued, no
\* WantedKeysMsg answering a later batch of the stream has been enqueued
\* yet.
C27_ProofBeforeNextWanted ==
    [][(ret'.op = "BatchDone" /\ ret'.outcome = "proof" /\ pq' # pq) =>
          incoming[ret'.peer][ret'.stream].wanted <= ret'.batch]_vars


(***************************************************************************)
(* Claims settled under SpecDispatch.                                      *)
(***************************************************************************)
\* C16: no handler blocks the dispatcher: while the peer's dispatch loop
\* runs, the handler of a ChunkDeliveryMsg can run to its return in every
\* state of receiveC, without a step of the receive loop in between.
C16_DispatcherNeverBlocks ==
    (phase["p1"] = "running" /\ Alive) =>
        ENABLED handleChunkDeliveryMsg("p1",
                    ChunkDeliveryMsg("h1", DataOf("h1")))


(***************************************************************************)
(* Claims settled under SpecNextBatch.                                     *)
(***************************************************************************)
\* position x lies in one of the completed ranges [a, b) of the list iv
Covered(iv, x) ==
    \E i \in 1 .. (Len(iv) \div 2) : iv[2 * i - 1] <= x /\ x < iv[2 * i]
\* the uncovered positions at or after from and below the session mark
Uncovered(iv, mark, from) ==
    {x \in Marks : from <= x /\ x < mark /\ ~Covered(iv, x)}
\* the next uncovered range at or after from: it starts at the first
\* uncovered position and ends at the start of the next completed range, or
\* at the session mark when there is none
GapNext(iv, mark, from) ==
    LET nf == MinOf(Uncovered(iv, mark, from))
        starts == {iv[2 * i - 1] : i \in 1 .. (Len(iv) \div 2)}
    IN <<nf, MinOf({a \in starts : a > nf} \cup {mark})>>

MissingAt(p, s, ws, avail) ==
    {m \in 1 .. Len(ws) :
        /\ s.currentBatch.hs[ws[m] + 1] \notin avail
        /\ \A j \in 1 .. (m - 1) : s.currentBatch.hs[ws[j] + 1] \in avail
        /\ m > 1 => /\ s.priority \in Levels
                    /\ Len(pq[p][s.priority]) + (m - 1) <= PriorityQueueCap}

\* C17: when GetData returns nil for a wanted hash h_i, handleWantedKeysMsg
\* returns the not-found error; the queue has grown by exactly the deliveries
\* of the wanted hashes before h_i, in order, so none is enqueued for h_i and
\* the earlier ones are still queued; the peer keeps running, so the egress
\* worker goes on sending them.
C17_NotFoundKeepsEarlierDeliveries ==
    [][WantedKeysParsed(ret') =>
          LET p == ret'.peer
              s == outgoing[p][ret'.req.Stream]
              ws == WantedSeq(ret'.req.Want,
                              ByteLen(s.currentBatch) \div HashSize)
          IN \A m \in MissingAt(p, s, ws, ret'.avail) :
                /\ ret'.err = "not found"
                /\ DeliveredFirst(p, s.priority, s.currentBatch, ws, m - 1)
                /\ phase' = phase
                /\ outgoing' = outgoing]_vars

\* the second hash of a batch of two was not found after the first had been
\* delivered, and the delivery of the first is the last item of its level
C17_Witness ==
    /\ ret.op = "handleWantedKeysMsg"
    /\ ret.err = "not found"
    /\ ret.req.Want = <<3>>
    /\ ret.avail = {"h1"}
    /\ LET q == pq[ret.peer][Mid] IN
          /\ q # <<>>
          /\ q[Len(q)] = ChunkDeliveryMsg("h1", DataOf("h1"))
    /\ ENABLED Egress(ret.peer)

\* a WantedKeysMsg for a registered stream whose want has not the byte length
\* of a bitvector over len(currentBatch)/HashSize bits
WantedKeysMismatch(r) ==
    /\ r.op = "handleWantedKeysMsg"
    /\ Has(outgoing[r.peer], r.req.Stream)
    /\ Len(r.req.Want) #
          BvBytes(ByteLen(outgoing[r.peer][r.req.Stream].currentBatch)
                     \div HashSize)

\* C18: a WantedKeysMsg whose want has the wrong byte length makes
\* handleWantedKeysMsg return an error; the handler enqueues nothing and
\* leaves currentBatch (the whole outgoing map) as it was.
C18_WantMismatchRejected ==
    [][WantedKeysMismatch(ret') =>
          /\ ret'.err # "nil"
          /\ pq' = pq
          /\ outgoing' = outgoing]_vars

\* an empty want has just been rejected for a stream whose current batch
\* holds hashes
C18_Witness ==
    /\ ret.op = "handleWantedKeysMsg"
    /\ ret.err = "bitvector"
    /\ Has(outgoing[ret.peer], ret.req.Stream)
    /\ ret.req.Want = <<>>
    /\ Len(outgoing[ret.peer][ret.req.Stream].currentBatch.hs) > 0


\* C25: every push onto a peer's queue names a level the queue has: the
\* level of the UnsyncedKeysMsg a SendUnsyncedKeys task pushes and of the
\* deliveries handleWantedKeysMsg pushes, which is the priority byte of the
\* remote's SubscribeMsg, and the level of the SubscribeMsg a Subscribe call
\* pushes.
C25_PushLevelsExist ==
    /\ ret.op = "SendUnsyncedKeys" => ret.priority \in Levels
    /\ (ret.op = "handleWantedKeysMsg" /\ ret.err = "push")
          => outgoing[ret.peer][ret.req.Stream].priority \in Levels
    /\ (IsSubscribeCall(ret) /\ ret.err = "nil") => ret.priority \in Levels

\* C28: an outgoing entry's currentBatch is the hashes of the
\* UnsyncedKeysMsg most recently enqueued for its stream: it changes only in
\* the step that enqueues an UnsyncedKeysMsg, and to that message's hashes,
\* so that a WantedKeysMsg is read against the batch it answers.
C28_CurrentBatchIsLastEnqueued ==
    [][\A p \in PeerIds :
          \A k \in DOMAIN outgoing[p] \cap DOMAIN outgoing'[p] :
             LET enqueued == /\ ret'.op = "SendUnsyncedKeys"
                             /\ ret'.peer = p
                             /\ ret'.stream = k
                             /\ ret'.err = "nil"
             IN /\ outgoing'[p][k].currentBatch # outgoing[p][k].currentBatch
                      => enqueued
                /\ enqueued
                      => outgoing'[p][k].currentBatch = ret'.msg.Hashes]_vars

(***************************************************************************)
(* Claims settled under SpecRun.                                           *)
(***************************************************************************)
\* C23: a peer is in the peer table from before its dispatch loop starts
\* until the loop has returned; when Run has returned the peer is out of the
\* table and its quit is closed; quit is closed by Run's deferred close and
\* by nothing else, once for each Run, whatever the other peers do.
C23_PeerRegisteredWhileRunning ==
    /\ [](\A p \in PeerIds :
             /\ phase[p] \in {"subscribing", "running", "closing"}
                   => p \in peers
             /\ phase[p] = "done" => p \notin peers /\ quitClosed(p)
             /\ p \in peers => phase[p] \in {"subscribing", "running",
                                             "closing"})
    /\ [][\A p \in PeerIds :
             /\ (~quitClosed(p) /\ quitClosed(p)')
                   => ret' = [op |-> "RunCloseQuit", peer |-> p]
             /\ (quitClosed(p) /\ ~quitClosed(p)')
                   => ret' = [op |-> "RunAgain", peer |-> p]
             /\ (phase[p] = "closing" /\ phase'[p] # "closing")
                   => phase'[p] = "done"]_vars

\* one peer runs with a subscription, in the table, while the Run of the
\* other peer has just returned and taken that peer out of the table
C23_Witness ==
    /\ phase["p1"] = "running"
    /\ phase["p2"] = "done"
    /\ peers = {"p1"}
    /\ Has(incoming["p1"], <<"s">>)
    /\ ret = [op |-> "RunDeletePeer", peer |-> "p2"]


(***************************************************************************)
(* Claims settled under SpecHandle.                                        *)
(***************************************************************************)
\* the message types the protocol handles
InScopeTypes ==
    {"Subscribe", "UnsyncedKeys", "WantedKeys", "TakeoverProof",
     "ChunkDelivery", "RetrieveRequest"}

\* the handler of each message type
HandlerOf(type) ==
    CASE type = "Subscribe" -> "handleSubscribeMsg"
      [] type = "UnsyncedKeys" -> "handleUnsyncedKeysMsg"
      [] type = "WantedKeys" -> "handleWantedKeysMsg"
      [] type = "TakeoverProof" -> "handleTakeoverProofMsg"
      [] type = "ChunkDelivery" -> "handleChunkDeliveryMsg"
      [] type = "RetrieveRequest" -> "handleRetrieveRequestMsg"
      [] OTHER -> "HandleMsg"

\* C24: every message the dispatcher is handed goes to the handler of its
\* type, whose result is the dispatcher's result; only a message of a type
\* outside the protocol gets the unknown-message-type error, and then
\* nothing of the state changes.
C24_RoutedByVariant ==
    [][\A msg \in HandleMsgInputs :
          (/\ "req" \in DOMAIN ret'
           /\ ret'.req = msg
           /\ ret'.op \in {HandlerOf(t) : t \in InScopeTypes} \cup {"HandleMsg"})
          => /\ ret'.op = HandlerOf(msg.type)
             /\ ret'.op = "HandleMsg" =>
                   /\ ret'.err = "unknown message type"
                   /\ UNCHANGED <<regIn, regOut, peers, phase, outgoing,
                                  incoming, pq, tasks, chunkVars>>]_vars

====
